---- MODULE Spec2Model ----
(***************************************************************************)
(* Training-job executor of the text humanization templates:               *)
(*   templates/pytorch_train.py     (HuggingFace Trainer backend)          *)
(*   templates/tensorflow_train.py  (Keras backend)                        *)
(* One run of main() of either script is one behaviour.  Each statement    *)
(* of main()/train_model() that touches the file system, the libraries or  *)
(* the standard output is one action.  A library call (from_pretrained,    *)
(* Trainer.train, model.fit, save, evaluate) either returns or raises; an  *)
(* exception is never caught by the scripts, so it ends the process.       *)
(* What the libraries do with the arguments the scripts pass them          *)
(* (checkpoint rotation, best-model tracking, Keras callbacks) follows     *)
(* the libraries' documented behaviour.                                    *)
(***************************************************************************)
EXTENDS Integers, Sequences, FiniteSets, TLC

\* ---------------------------------------------------------------- bounds
\* largest value of config['epochs'] a run is given
MaxEpochs == 3
\* largest explicit value of config['save_total_limit'] a run is given
MaxLimit == 2
\* optimizer steps per epoch (ceil(len(train_dataset) / batch_size))
StepsPerEpoch == 1
\* largest number of records a data file holds
MaxRecords == 2

\* ------------------------------------------------------ program constants
\* config.get('save_total_limit', 3)
DefaultSaveTotalLimit == 3
\* config.get('early_stopping_patience', 3)
DefaultPatience == 3
\* ReduceLROnPlateau(patience=2)
PlateauPatience == 2
\* config.get('epochs', 10)
DefaultEpochs == 10
\* config.get('save_steps', 1000)
DefaultSaveSteps == 1000
\* config.get('eval_steps', 500)
DefaultEvalSteps == 500

Backends == {"pytorch", "tensorflow"}
\* what --train-data names: no file, a file that does not parse, a file of records
TrainPaths == {"missing", "malformed", "records"}
\* what --val-data names: not given, no file, unparsable, zero records, records
ValPaths == {"absent", "missing", "malformed", "empty", "records"}
\* losses an evaluation round can report
LossValues == {1, 2}
\* a config key is either not in the file (0) or holds a positive number
Configs ==
    [epochs : 1..MaxEpochs,
     save_total_limit : 0..MaxLimit,
     early_stopping_patience : {0, 1, 2},
     save_steps : {1, 2},
     eval_steps : {1, 2}]
NoConfig ==
    [epochs |-> 0, save_total_limit |-> 0, early_stopping_patience |-> 0,
     save_steps |-> 0, eval_steps |-> 0]
NoArgs ==
    [num_train_epochs |-> 0, save_steps |-> 0, eval_steps |-> 0,
     evaluation_strategy |-> "no", save_total_limit |-> 0,
     load_best_model_at_end |-> FALSE]
EmptyMetrics == [k \in {} |-> 0]

\* --- data files
\* a path is its name followed by its dot-separated suffixes
Paths ==
    {<<"data", ".json">>, <<"data", ".jsonl">>, <<"data", ".txt">>,
     <<"data", ".json", ".bak">>}
\* how the records are laid out in the file: the whole array on one line, the
\* array pretty-printed over several lines, one record per line, one record
\* per line followed by an empty line
Layouts == {"array", "array_multiline", "lines", "lines_blank"}
Fields == {"input", "output"}
Texts == {"", "a", "b"}
\* a record is a JSON object holding some of the fields
Records == UNION {[F -> Texts] : F \in SUBSET Fields}
NoRecord == [k \in {} |-> ""]
Files ==
    [layout : Layouts,
     records : UNION {[1..n -> Records] : n \in 0..MaxRecords}]
NoFile == [layout |-> "lines", records |-> <<>>]
NoData == [type |-> "none", items |-> <<>>]

VARIABLES
    data_path,          \* the path handed to the loader
    file,               \* what the file at data_path holds
    load_pc,            \* the loader: "idle", "open", "returned", "raised"
    line_no,            \* the line the comprehension is at
    parses,             \* json.load / json.loads calls made
    data,               \* self.data / data: what the loader returns
    backend,            \* which script runs
    train_data_path,    \* what args.train_data names
    val_data_path,      \* what args.val_data names
    train_schema_ok,    \* every record of the training file has 'input' and 'output'
    val_schema_ok,      \* every record of the validation file has 'input' and 'output'
    prior_metrics_file, \* output_dir held a training_metrics.json before the run
    config,             \* the dict json.load(args.config) returned
    pc,                 \* the statement about to run
    failed_step,        \* the statement that raised, "none" while none has
    exit_status,        \* -1 while the process runs, then its exit status
    events,             \* the lifecycle calls made so far, in order
    val_dataset,        \* val_dataset / val_data: "None", "empty" or "records"
    training_args,      \* what TrainingArguments(...) was given
    callbacks_list,     \* the Keras callbacks handed to fit
    validation_data,    \* whether fit was handed validation data
    global_step,        \* Trainer.state.global_step
    epochs_trained,     \* len(history.history['loss']) / epochs completed
    val_loss_history,   \* validation losses of the evaluation rounds so far
    best_metric,        \* best validation loss seen (0: none yet)
    best_model_checkpoint, \* step of the best checkpoint (0: none)
    checkpoints,        \* checkpoint artifacts on disk (their step / epoch)
    wait,               \* EarlyStopping.wait
    plateau_wait,       \* ReduceLROnPlateau.wait
    lr_halvings,        \* how often the learning rate was multiplied by 0.5
    stop_training,      \* model.stop_training
    train_loss,         \* the training loss the backend reported (0: none)
    final_model_saved,  \* the final model is in output_dir
    tokenizer_saved,    \* the tokenizer is in output_dir
    eval_passes,        \* calls of trainer.evaluate() after training
    metrics,            \* the metrics dict of train_model
    metrics_file,       \* training_metrics.json as this run wrote it: "absent"
                        \* (not opened), "partial" or "complete"
    metrics_file_content, \* what this run wrote to training_metrics.json
    stdout              \* the METRICS lines printed, in order

loadVars == <<data_path, file, load_pc, line_no, parses, data>>
inputVars == <<backend, train_data_path, val_data_path, train_schema_ok,
               val_schema_ok, prior_metrics_file, loadVars>>
ctlVars == <<pc, failed_step, exit_status, events>>
setupVars == <<config, val_dataset, training_args, callbacks_list, validation_data>>
fitVars == <<global_step, epochs_trained, val_loss_history, best_metric,
             best_model_checkpoint, checkpoints, wait, plateau_wait,
             lr_halvings, stop_training, train_loss>>
saveVars == <<final_model_saved, tokenizer_saved>>
outVars == <<eval_passes, metrics, metrics_file, metrics_file_content, stdout>>
vars == <<inputVars, ctlVars, setupVars, fitVars, saveVars, outVars>>

\* ---------------------------------------------------------------- helpers
\* dict.get(key, default): the default only when the key is not in the dict
Get(value, default) == IF value = 0 THEN default ELSE value

\* bool(val_dataset): None is false, and so is a dataset / list of length 0
Truthy(ds) == ds = "records"

\* `val_data_path and os.path.exists(val_data_path)`
ValPathUsableNoExists(path) == path # "absent"
ValPathUsable(path) == path # "absent" /\ path # "missing"

\* open(data_path) + json.load / json.loads per line: raises on a missing or
\* unparsable file
LoadRaises(path) == path \in {"missing", "malformed"}
Loaded(path) == IF path = "empty" THEN "empty" ELSE "records"

\* (variant: the exception is swallowed and main() returns 0 all the same)
RaiseSwallowed(step) ==
    /\ pc' = "done"
    /\ failed_step' = step
    /\ exit_status' = 0
    /\ events' = events
\* (variant: a failure of fit is caught and fit is invoked again)
RaiseOrRetryFit(step) ==
    /\ pc' = IF step # "fit" THEN "aborted"
             ELSE IF backend = "pytorch" THEN "train_call" ELSE "fit_call"
    /\ failed_step' = IF step # "fit" THEN step ELSE failed_step
    /\ exit_status' = IF step # "fit" THEN 1 ELSE exit_status
    /\ events' = events
\* an uncaught exception leaves main(): the interpreter exits with status 1
Raise(step) ==
    /\ pc' = "aborted"
    /\ failed_step' = step
    /\ exit_status' = 1
    /\ events' = events

Goto(next, event) ==
    /\ pc' = next
    /\ events' = Append(events, event)
    /\ UNCHANGED <<failed_step, exit_status>>

\* only a file that holds records can hold one without 'input' or 'output'
SchemaChoices(path) == IF path = "records" THEN BOOLEAN ELSE {TRUE}

IsPyTorch == backend = "pytorch"
IsTensorFlow == backend = "tensorflow"

\* no statement of main() has run
RunStart ==
    /\ config = NoConfig
    /\ pc = "main"
    /\ failed_step = "none"
    /\ exit_status = -1
    /\ events = <<>>
    /\ val_dataset = "None"
    /\ training_args = NoArgs
    /\ callbacks_list = {}
    /\ validation_data = FALSE
    /\ global_step = 0
    /\ epochs_trained = 0
    /\ val_loss_history = <<>>
    /\ best_metric = 0
    /\ best_model_checkpoint = 0
    /\ checkpoints = {}
    /\ wait = 0
    /\ plateau_wait = 0
    /\ lr_halvings = 0
    /\ stop_training = FALSE
    /\ train_loss = 0
    /\ final_model_saved = FALSE
    /\ tokenizer_saved = FALSE
    /\ eval_passes = 0
    /\ metrics = EmptyMetrics
    /\ metrics_file = "absent"
    /\ metrics_file_content = EmptyMetrics
    /\ stdout = <<>>

\* the loader is not under study
LoadIdle ==
    /\ data_path = <<>>
    /\ file = NoFile
    /\ load_pc = "idle"
    /\ line_no = 0
    /\ parses = 0
    /\ data = NoData

Init ==
    /\ backend \in Backends
    /\ train_data_path \in TrainPaths
    /\ val_data_path \in ValPaths
    /\ train_schema_ok \in SchemaChoices(train_data_path)
    /\ val_schema_ok \in SchemaChoices(val_data_path)
    /\ prior_metrics_file \in BOOLEAN
    /\ LoadIdle
    /\ RunStart

\* ------------------------------------------------------------------ main
\* (variant: train_model of either script starts with the data load, the
\* pytorch one never reaching from_pretrained)
LoadConfigThenData ==
    /\ pc = "main"
    /\ \/ /\ \E c \in Configs : config' = c
          /\ Goto("load_train", "config")
       \/ /\ Raise("config")
          /\ UNCHANGED config
    /\ UNCHANGED <<inputVars, val_dataset, training_args, callbacks_list,
                   validation_data, fitVars, saveVars, outVars>>
\* with open(args.config) as f: config = json.load(f)
LoadConfig ==
    /\ pc = "main"
    /\ \/ /\ \E c \in Configs : config' = c
          /\ Goto(IF IsPyTorch THEN "from_pretrained" ELSE "load_train", "config")
       \/ /\ Raise("config")
          /\ UNCHANGED config
    /\ UNCHANGED <<inputVars, val_dataset, training_args, callbacks_list,
                   validation_data, fitVars, saveVars, outVars>>

\* ------------------------------------------------- pytorch_train.py: setup
\* tokenizer = AutoTokenizer.from_pretrained(...); model = AutoModelForSeq2SeqLM...
PTFromPretrained ==
    /\ IsPyTorch /\ pc = "from_pretrained"
    /\ \/ Goto("load_train", "construct_model")
       \/ Raise("construct_model")
    /\ UNCHANGED <<inputVars, setupVars, fitVars, saveVars, outVars>>

\* train_dataset = HumanizationDataset(train_data_path, ...)
PTLoadTrain ==
    /\ IsPyTorch /\ pc = "load_train"
    /\ IF LoadRaises(train_data_path)
       THEN Raise("load_train")
       ELSE Goto("load_val", "load_train")
    /\ UNCHANGED <<inputVars, setupVars, fitVars, saveVars, outVars>>

\* val_dataset = None; if val_data_path and os.path.exists(val_data_path): ...
PTLoadVal ==
    /\ IsPyTorch /\ pc = "load_val"
    /\ IF ValPathUsable(val_data_path)
       THEN IF LoadRaises(val_data_path)
            THEN Raise("load_val") /\ UNCHANGED val_dataset
            ELSE /\ val_dataset' = Loaded(val_data_path)
                 /\ Goto("training_args", "load_val")
       ELSE /\ val_dataset' = "None"
            /\ pc' = "training_args"
            /\ UNCHANGED <<failed_step, exit_status, events>>
    /\ UNCHANGED <<inputVars, config, training_args, callbacks_list,
                   validation_data, fitVars, saveVars, outVars>>

\* the keyword arguments of TrainingArguments(...) that depend on val_dataset
TrainingArgumentsOf(cfg, ds) ==
    [num_train_epochs |-> Get(cfg.epochs, DefaultEpochs),
     save_steps |-> Get(cfg.save_steps, DefaultSaveSteps),
     eval_steps |-> IF Truthy(ds) THEN Get(cfg.eval_steps, DefaultEvalSteps) ELSE 0,
     evaluation_strategy |-> IF Truthy(ds) THEN "steps" ELSE "no",
     save_total_limit |-> Get(cfg.save_total_limit, DefaultSaveTotalLimit),
     load_best_model_at_end |-> Truthy(ds)]

\* TrainingArguments.__post_init__: load_best_model_at_end requires the saving
\* steps to be a round multiple of the evaluation steps
ArgsRejected(a) ==
    a.load_best_model_at_end /\ a.save_steps % a.eval_steps # 0

\* training_args = TrainingArguments(...)
PTTrainingArguments ==
    /\ IsPyTorch /\ pc = "training_args"
    /\ LET a == TrainingArgumentsOf(config, val_dataset) IN
       IF ArgsRejected(a)
       THEN Raise("training_args") /\ UNCHANGED training_args
       ELSE training_args' = a /\ Goto("trainer", "training_args")
    /\ UNCHANGED <<inputVars, config, val_dataset, callbacks_list,
                   validation_data, fitVars, saveVars, outVars>>

\* trainer = Trainer(model, args, train_dataset, eval_dataset=val_dataset, ...)
PTTrainer ==
    /\ IsPyTorch /\ pc = "trainer"
    /\ Goto("train_call", "trainer")
    /\ validation_data' = (val_dataset # "None")
    /\ UNCHANGED <<inputVars, config, val_dataset, training_args, callbacks_list,
                   fitVars, saveVars, outVars>>

\* --------------------------------------- pytorch_train.py: Trainer.train()
Max(a, b) == IF a >= b THEN a ELSE b

SetMin(S) == CHOOSE x \in S : \A y \in S : x <= y
SetMax(S) == CHOOSE x \in S : \A y \in S : y <= x

RECURSIVE Ascending(_)
Ascending(S) ==
    IF S = {} THEN <<>>
    ELSE LET m == SetMin(S) IN <<m>> \o Ascending(S \ {m})

\* Trainer._sorted_checkpoints: by step, the best checkpoint moved next to the
\* last one so that rotation does not delete it
SortedCheckpoints(cps, best) ==
    LET asc == Ascending(cps) IN
    IF best \in cps /\ best # SetMax(cps)
    THEN LET rest == SelectSeq(asc, LAMBDA x : x # best) IN
         SubSeq(rest, 1, Len(rest) - 1) \o <<best>> \o <<rest[Len(rest)]>>
    ELSE asc

\* Trainer._rotate_checkpoints under save_total_limit: the oldest are deleted;
\* with a limit of 1 and a best checkpoint that is not the last one, both the
\* best and the last are kept
RotateCheckpoints(cps, best, limit) ==
    IF limit <= 0 \/ cps = {} THEN cps
    ELSE LET sorted == SortedCheckpoints(cps, best)
             lim == IF best # 0 /\ limit = 1 /\ sorted[Len(sorted)] # best
                    THEN 2 ELSE limit
             n == Max(0, Len(sorted) - lim)
         IN {sorted[i] : i \in (n + 1)..Len(sorted)}

\* Trainer._save_checkpoint: the checkpoint becomes the best one when this
\* round's evaluation loss is below the best so far (greater_is_better=False)
IsNewBest(loss) ==
    best_metric = 0 \/ best_model_checkpoint = 0 \/ loss < best_metric

TotalSteps == training_args.num_train_epochs * StepsPerEpoch

\* train_result = trainer.train(): the call
PTTrainCall ==
    /\ IsPyTorch /\ pc = "train_call"
    /\ Goto("train", "fit")
    /\ UNCHANGED <<inputVars, setupVars, fitVars, saveVars, outVars>>

\* what one step leaves behind: `evaluated` says whether an evaluation round
\* ran at it (and then reported `loss`), `saved` whether a checkpoint is due
PTStepEffect(step, evaluated, loss, saved) ==
    /\ val_loss_history' =
          IF evaluated THEN Append(val_loss_history, loss) ELSE val_loss_history
    /\ IF saved /\ evaluated /\ IsNewBest(loss)
       THEN best_metric' = loss /\ best_model_checkpoint' = step
       ELSE UNCHANGED <<best_metric, best_model_checkpoint>>
    /\ checkpoints' =
          IF saved
          THEN RotateCheckpoints(checkpoints \cup {step}, best_model_checkpoint',
                                 training_args.save_total_limit)
          ELSE checkpoints
    /\ global_step' = step
    /\ epochs_trained' = step \div StepsPerEpoch

\* HumanizationDataset.__getitem__ reads item['input'] and item['output'] when
\* the training loop fetches the item: a record without one of them raises
\* KeyError there, at the latest in the last batch of the first epoch
BatchesReadable(step) == train_schema_ok \/ step < StepsPerEpoch

\* one optimizer step of the training loop, with the evaluation and the
\* checkpoint the cadences of training_args make due at it; an evaluation
\* round fetches every item of val_dataset
PTTrainStep ==
    /\ IsPyTorch /\ pc = "train" /\ global_step < TotalSteps
    /\ LET step == global_step + 1
           evalDue == training_args.evaluation_strategy = "steps"
                      /\ step % training_args.eval_steps = 0
           saveDue == step % training_args.save_steps = 0
       IN \/ /\ BatchesReadable(step)
             /\ evalDue => val_schema_ok
             /\ IF evalDue
                THEN \E loss \in LossValues : PTStepEffect(step, TRUE, loss, saveDue)
                ELSE PTStepEffect(step, FALSE, 0, saveDue)
             /\ UNCHANGED <<ctlVars, wait, plateau_wait, lr_halvings,
                            stop_training, train_loss>>
          \/ /\ Raise("fit")
             /\ UNCHANGED fitVars
    /\ UNCHANGED <<inputVars, setupVars, saveVars, outVars>>

\* trainer.train() returns its TrainOutput after the last step
PTTrainReturn ==
    /\ IsPyTorch /\ pc = "train" /\ global_step = TotalSteps
    /\ \E loss \in LossValues : train_loss' = loss
    /\ Goto("save_model", "fit_returned")
    /\ UNCHANGED <<inputVars, setupVars, global_step, epochs_trained,
                   val_loss_history, best_metric, best_model_checkpoint,
                   checkpoints, wait, plateau_wait, lr_halvings, stop_training,
                   saveVars, outVars>>

\* ------------------------------------- pytorch_train.py: save and metrics
\* trainer.save_model()
PTSaveModel ==
    /\ IsPyTorch /\ pc = "save_model"
    /\ \/ final_model_saved' = TRUE /\ Goto("save_tokenizer", "save_model")
       \/ Raise("save_model") /\ UNCHANGED final_model_saved
    /\ UNCHANGED <<inputVars, setupVars, fitVars, tokenizer_saved, outVars>>

\* tokenizer.save_pretrained(output_dir)
PTSaveTokenizer ==
    /\ IsPyTorch /\ pc = "save_tokenizer"
    /\ \/ tokenizer_saved' = TRUE /\ Goto("metrics", "save_tokenizer")
       \/ Raise("save_tokenizer") /\ UNCHANGED tokenizer_saved
    /\ UNCHANGED <<inputVars, setupVars, fitVars, final_model_saved, outVars>>

\* metrics = {'train_loss': ..., 'train_runtime': ..., ...}
PTMetricsOf(loss, epoch) ==
    [k \in {"train_loss", "train_runtime", "train_samples_per_second", "epoch"} |->
        IF k = "train_loss" THEN loss
        ELSE IF k = "epoch" THEN epoch
        ELSE 1]

\* (variant: the metrics file is written as soon as the dict is built, before
\* the final evaluation)
PTBuildMetricsThenWrite ==
    /\ IsPyTorch /\ pc = "metrics"
    /\ metrics' = PTMetricsOf(train_loss, epochs_trained)
    /\ metrics_file' = "complete"
    /\ metrics_file_content' = metrics'
    /\ Goto("evaluate", "metrics")
    /\ UNCHANGED <<inputVars, setupVars, fitVars, saveVars, eval_passes, stdout>>
PTBuildMetrics ==
    /\ IsPyTorch /\ pc = "metrics"
    /\ metrics' = PTMetricsOf(train_loss, epochs_trained)
    /\ Goto("evaluate", "metrics")
    /\ UNCHANGED <<inputVars, setupVars, fitVars, saveVars, eval_passes,
                   metrics_file, metrics_file_content, stdout>>

\* dict.update({key: value})
Update(m, key, value) ==
    [k \in DOMAIN m \cup {key} |-> IF k = key THEN value ELSE m[k]]

\* if val_dataset: eval_result = trainer.evaluate(); metrics.update({'eval_loss': ...})
PTEvaluate ==
    /\ IsPyTorch /\ pc = "evaluate"
    /\ IF Truthy(val_dataset)
       THEN \/ /\ val_schema_ok
               /\ \E loss \in LossValues :
                     metrics' = Update(metrics, "eval_loss", loss)
               /\ eval_passes' = eval_passes + 1
               /\ Goto("write_metrics", "evaluate")
            \/ /\ Raise("evaluate")
               /\ UNCHANGED <<metrics, eval_passes>>
       ELSE /\ pc' = "write_metrics"
            /\ UNCHANGED <<failed_step, exit_status, events, metrics, eval_passes>>
    /\ UNCHANGED <<inputVars, setupVars, fitVars, saveVars,
                   metrics_file, metrics_file_content, stdout>>

\* ------------------------------------------------- both scripts: the output
\* (variant: the METRICS line is printed where the file should be written)
PrintBeforeWrite ==
    /\ pc = "write_metrics"
    /\ stdout' = Append(stdout, metrics)
    /\ Goto("print", "print")
    /\ UNCHANGED <<inputVars, setupVars, fitVars, saveVars, eval_passes,
                   metrics, metrics_file, metrics_file_content>>
\* with open(metrics_path, 'w') as f: json.dump(metrics, f, indent=2)
\* open() may raise before the file exists; json.dump may raise after open()
\* has created it
WriteMetrics ==
    /\ pc = "write_metrics"
    /\ \/ /\ metrics_file' = "complete"
          /\ metrics_file_content' = metrics
          /\ Goto("print", "write_metrics")
       \/ /\ Raise("write_metrics")
          /\ metrics_file' \in {metrics_file, "partial"}
          /\ metrics_file_content' = EmptyMetrics
    /\ UNCHANGED <<inputVars, setupVars, fitVars, saveVars, eval_passes,
                   metrics, stdout>>

\* (variant: the line printed holds the training fields only)
PrintTrainingMetrics ==
    /\ pc = "print"
    /\ stdout' = Append(stdout,
                        [k \in DOMAIN metrics \ {"eval_loss", "final_val_loss",
                                                  "final_val_accuracy"} |-> metrics[k]])
    /\ Goto("return", "print")
    /\ UNCHANGED <<inputVars, setupVars, fitVars, saveVars, eval_passes,
                   metrics, metrics_file, metrics_file_content>>
\* print(f"METRICS: {json.dumps(metrics)}")
PrintMetrics ==
    /\ pc = "print"
    /\ stdout' = Append(stdout, metrics)
    /\ Goto("return", "print")
    /\ UNCHANGED <<inputVars, setupVars, fitVars, saveVars, eval_passes,
                   metrics, metrics_file, metrics_file_content>>

\* return 0; sys.exit(main())
Return0 ==
    /\ pc = "return"
    /\ pc' = "done"
    /\ exit_status' = 0
    /\ UNCHANGED <<inputVars, failed_step, events, setupVars, fitVars,
                   saveVars, outVars>>

\* ------------------------------------------- tensorflow_train.py: setup
\* train_data = load_data(train_data_path)
TFLoadTrain ==
    /\ IsTensorFlow /\ pc = "load_train"
    /\ IF LoadRaises(train_data_path)
       THEN Raise("load_train")
       ELSE Goto("load_val", "load_train")
    /\ UNCHANGED <<inputVars, setupVars, fitVars, saveVars, outVars>>

\* val_data = None; if val_data_path and os.path.exists(val_data_path): ...
TFLoadVal ==
    /\ IsTensorFlow /\ pc = "load_val"
    /\ IF ValPathUsable(val_data_path)
       THEN IF LoadRaises(val_data_path)
            THEN Raise("load_val") /\ UNCHANGED val_dataset
            ELSE /\ val_dataset' = Loaded(val_data_path)
                 /\ Goto("create_model", "load_val")
       ELSE /\ val_dataset' = "None"
            /\ pc' = "create_model"
            /\ UNCHANGED <<failed_step, exit_status, events>>
    /\ UNCHANGED <<inputVars, config, training_args, callbacks_list,
                   validation_data, fitVars, saveVars, outVars>>

\* model = create_model(vocab_size, embedding_dim, hidden_units, config)
TFCreateModel ==
    /\ IsTensorFlow /\ pc = "create_model"
    /\ \/ Goto("compile", "construct_model")
       \/ Raise("construct_model")
    /\ UNCHANGED <<inputVars, setupVars, fitVars, saveVars, outVars>>

\* model.compile(optimizer=..., loss=..., metrics=['accuracy'])
TFCompile ==
    /\ IsTensorFlow /\ pc = "compile"
    /\ Goto("callbacks", "compile")
    /\ UNCHANGED <<inputVars, setupVars, fitVars, saveVars, outVars>>

\* callbacks_list = [ModelCheckpoint(...), EarlyStopping(...), ReduceLROnPlateau(...)]
\* whatever val_data is
CallbacksFor(ds) == {"ModelCheckpoint", "EarlyStopping", "ReduceLROnPlateau"}

TFCallbacks ==
    /\ IsTensorFlow /\ pc = "callbacks"
    /\ callbacks_list' = CallbacksFor(val_dataset)
    /\ Goto("fit_call", "callbacks")
    /\ UNCHANGED <<inputVars, config, val_dataset, training_args,
                   validation_data, fitVars, saveVars, outVars>>

\* ------------------------------------- tensorflow_train.py: model.fit()
\* the data arguments of fit are commented out in the template: fit is given
\* no validation data whatever val_data is.  The call itself is taken as any
\* other library call: each epoch either completes or raises.
FitValidationData(ds) == FALSE

\* history = model.fit(epochs=..., batch_size=..., callbacks=callbacks_list)
TFFitCall ==
    /\ IsTensorFlow /\ pc = "fit_call"
    /\ validation_data' = FitValidationData(val_dataset)
    /\ Goto("fit", "fit")
    /\ UNCHANGED <<inputVars, config, val_dataset, training_args,
                   callbacks_list, fitVars, saveVars, outVars>>

\* EarlyStopping(patience=config.get('early_stopping_patience', 3))
Patience == Get(config.early_stopping_patience, DefaultPatience)

\* on_epoch_end of the three callbacks for an epoch whose logs hold val_loss
TFCallbacksOnEpochEnd(epoch, loss) ==
    LET improved == best_metric = 0 \/ loss < best_metric
        w == IF improved THEN 0 ELSE wait + 1
        pw == IF improved THEN 0 ELSE plateau_wait + 1
    IN /\ best_metric' = IF improved THEN loss ELSE best_metric
       /\ best_model_checkpoint' = IF improved THEN epoch ELSE best_model_checkpoint
       \* ModelCheckpoint(save_best_only=True): a new file per improvement
       /\ checkpoints' = IF improved /\ "ModelCheckpoint" \in callbacks_list
                         THEN checkpoints \cup {epoch} ELSE checkpoints
       \* EarlyStopping
       /\ wait' = w
       /\ stop_training' = ("EarlyStopping" \in callbacks_list /\ w >= Patience)
       \* ReduceLROnPlateau(factor=0.5, patience=2)
       /\ IF "ReduceLROnPlateau" \in callbacks_list /\ pw >= PlateauPatience
          THEN lr_halvings' = lr_halvings + 1 /\ plateau_wait' = 0
          ELSE lr_halvings' = lr_halvings /\ plateau_wait' = pw

\* one epoch of fit; its logs hold val_loss only when fit was given
\* validation data, and without val_loss the callbacks do nothing
TFEpoch ==
    /\ IsTensorFlow /\ pc = "fit"
    /\ epochs_trained < Get(config.epochs, DefaultEpochs) /\ ~stop_training
    /\ \/ /\ epochs_trained' = epochs_trained + 1
          /\ IF validation_data
             THEN \E loss \in LossValues :
                    /\ val_loss_history' = Append(val_loss_history, loss)
                    /\ TFCallbacksOnEpochEnd(epochs_trained + 1, loss)
             ELSE UNCHANGED <<val_loss_history, best_metric, best_model_checkpoint,
                              checkpoints, wait, plateau_wait, lr_halvings,
                              stop_training>>
          /\ UNCHANGED <<ctlVars, global_step, train_loss>>
       \/ /\ Raise("fit")
          /\ UNCHANGED fitVars
    /\ UNCHANGED <<inputVars, setupVars, saveVars, outVars>>

\* fit returns its History after the last epoch or once stop_training is set
TFFitReturn ==
    /\ IsTensorFlow /\ pc = "fit"
    /\ epochs_trained = Get(config.epochs, DefaultEpochs) \/ stop_training
    /\ \E loss \in LossValues : train_loss' = loss
    /\ Goto("save_model", "fit_returned")
    /\ UNCHANGED <<inputVars, setupVars, global_step, epochs_trained,
                   val_loss_history, best_metric, best_model_checkpoint,
                   checkpoints, wait, plateau_wait, lr_halvings, stop_training,
                   saveVars, outVars>>

\* ---------------------------------- tensorflow_train.py: save and metrics
\* model.save(os.path.join(output_dir, 'model'))
TFSaveModel ==
    /\ IsTensorFlow /\ pc = "save_model"
    /\ \/ final_model_saved' = TRUE /\ Goto("metrics", "save_model")
       \/ Raise("save_model") /\ UNCHANGED final_model_saved
    /\ UNCHANGED <<inputVars, setupVars, fitVars, tokenizer_saved, outVars>>

\* metrics = {'final_train_loss': ..., 'final_train_accuracy': ..., 'epochs_trained': ...}
TFMetricsOf(loss, epochs) ==
    [k \in {"final_train_loss", "final_train_accuracy", "epochs_trained"} |->
        IF k = "final_train_loss" THEN loss
        ELSE IF k = "epochs_trained" THEN epochs
        ELSE 1]

TFBuildMetrics ==
    /\ IsTensorFlow /\ pc = "metrics"
    /\ metrics' = TFMetricsOf(train_loss, epochs_trained)
    /\ Goto("val_metrics", "metrics")
    /\ UNCHANGED <<inputVars, setupVars, fitVars, saveVars, eval_passes,
                   metrics_file, metrics_file_content, stdout>>

\* if val_data: metrics.update({'final_val_loss': history.history['val_loss'][-1], ...})
\* history.history has no 'val_loss' unless fit was given validation data
TFValMetrics ==
    /\ IsTensorFlow /\ pc = "val_metrics"
    /\ IF Truthy(val_dataset)
       THEN IF validation_data /\ val_loss_history # <<>>
            THEN /\ metrics' =
                      Update(Update(metrics, "final_val_loss",
                                    val_loss_history[Len(val_loss_history)]),
                             "final_val_accuracy", 1)
                 /\ Goto("write_metrics", "val_metrics")
            ELSE Raise("history_lookup") /\ UNCHANGED metrics
       ELSE /\ pc' = "write_metrics"
            /\ UNCHANGED <<failed_step, exit_status, events, metrics>>
    /\ UNCHANGED <<inputVars, setupVars, fitVars, saveVars, eval_passes,
                   metrics_file, metrics_file_content, stdout>>

\* ------------------------------------------------------------ the system
Next ==
    \/ LoadConfig
    \/ PTFromPretrained \/ PTLoadTrain \/ PTLoadVal
    \/ PTTrainingArguments \/ PTTrainer
    \/ PTTrainCall \/ PTTrainStep \/ PTTrainReturn
    \/ PTSaveModel \/ PTSaveTokenizer \/ PTBuildMetrics \/ PTEvaluate
    \/ TFLoadTrain \/ TFLoadVal \/ TFCreateModel \/ TFCompile \/ TFCallbacks
    \/ TFFitCall \/ TFEpoch \/ TFFitReturn
    \/ TFSaveModel \/ TFBuildMetrics \/ TFValMetrics
    \/ WriteMetrics \/ PrintMetrics \/ Return0

Spec == Init /\ [][Next]_vars

\* ------------------------------------------------- paths under output_dir
\* a path is its components below the run's working directory; n is the
\* number formatted into the last component, 0 when there is none
Path(parts, n) == [parts |-> parts, n |-> n]
\* (variant: checkpoints are written into output_dir itself)
PTCheckpointPathFlat(step) == Path(<<"output_dir">>, 0)
\* Trainer: <output_dir>/checkpoint-<global_step>
PTCheckpointPath(step) == Path(<<"output_dir", "checkpoint-{step}">>, step)
\* ModelCheckpoint: <output_dir>/checkpoints/checkpoint-<epoch>-<val_loss>.h5
TFCheckpointPath(epoch) ==
    Path(<<"output_dir", "checkpoints", "checkpoint-{epoch}-{val_loss}.h5">>, epoch)
CheckpointPath(n) == IF IsPyTorch THEN PTCheckpointPath(n) ELSE TFCheckpointPath(n)
\* trainer.save_model() and tokenizer.save_pretrained(output_dir) write their
\* files into output_dir itself
PTModelPath == Path(<<"output_dir", "model.safetensors">>, 0)
PTTokenizerPath == Path(<<"output_dir", "tokenizer.json">>, 0)
\* model.save(str(output_dir / 'model'))
TFModelPath == Path(<<"output_dir", "model">>, 0)
\* the final artifacts a run of the backend writes
FinalPaths == IF IsPyTorch THEN {PTModelPath, PTTokenizerPath} ELSE {TFModelPath}
\* the final artifacts written so far
FinalArtifacts ==
    {p \in FinalPaths :
        \/ p \in {PTModelPath, TFModelPath} /\ final_model_saved
        \/ p = PTTokenizerPath /\ tokenizer_saved}
\* p is d or lies below the directory d: writing or removing d touches p
Within(p, d) ==
    /\ Len(d.parts) <= Len(p.parts)
    /\ SubSeq(p.parts, 1, Len(d.parts)) = d.parts
    /\ (d.n # 0 => p.n = d.n)
\* the checkpoints written so far, kept or deleted since
CheckpointsWritten ==
    IF IsPyTorch
    THEN {s \in 1..global_step :
            training_args.save_steps > 0 /\ s % training_args.save_steps = 0}
    ELSE {e \in 1..epochs_trained : validation_data}

\* ------------------------------------------------------------ the loader
\* HumanizationDataset.__init__ (pytorch) and load_data (tensorflow) read a
\* file the same way; one call is one behaviour of LoadSpec.
runVars == <<backend, train_data_path, val_data_path, train_schema_ok,
             val_schema_ok, prior_metrics_file, ctlVars, setupVars, fitVars,
             saveVars, outVars>>

\* (variant: '.json' anywhere in the path selects the whole-document parse)
ContainsJson(path) == \E i \in 1..Len(path) : path[i] = ".json"
\* data_path.endswith('.json')
EndsWithJson(path) == path[Len(path)] = ".json"

Dict(r) == [kind |-> "dict", rec |-> r]
List == [kind |-> "list", rec |-> NoRecord]
Line(k, r) == [kind |-> k, rec |-> r]
RecordLines(f) == [i \in 1..Len(f.records) |-> Line("record", f.records[i])]
\* the lines of the file, as iterating over the file object yields them
FileLines(f) ==
    CASE f.layout = "lines" -> RecordLines(f)
      [] f.layout = "lines_blank" -> Append(RecordLines(f), Line("blank", NoRecord))
      [] f.layout = "array" -> <<Line("array", NoRecord)>>
      [] f.layout = "array_multiline" ->
            <<Line("open", NoRecord)>>
            \o [i \in 1..Len(f.records) |-> Line("item", f.records[i])]
            \o <<Line("close", NoRecord)>>

\* json.load(f): the whole file is one JSON document
JsonLoadRaises(f) ==
    f.layout \in {"lines", "lines_blank"} /\ Len(f.records) # 1
JsonLoad(f) ==
    IF f.layout \in {"array", "array_multiline"}
    THEN [type |-> "list",
          items |-> [i \in 1..Len(f.records) |-> Dict(f.records[i])]]
    ELSE [type |-> "dict", items |-> <<Dict(f.records[1])>>]

\* json.loads(line): a line is one JSON document
JsonLoadsRaises(line) == line.kind \notin {"record", "array"}
JsonLoads(line) == IF line.kind = "record" THEN Dict(line.rec) ELSE List

\* len(self.data) / len(data)
LoadedLen ==
    IF data.type = "dict" THEN Cardinality(DOMAIN data.items[1].rec)
    ELSE Len(data.items)

LoadInit ==
    /\ backend = "pytorch"
    /\ train_data_path = "records"
    /\ val_data_path = "absent"
    /\ train_schema_ok = TRUE
    /\ val_schema_ok = TRUE
    /\ prior_metrics_file = FALSE
    /\ RunStart
    /\ data_path \in Paths
    /\ file \in Files
    /\ load_pc = "open"
    /\ line_no = 1
    /\ parses = 0
    /\ data = [type |-> "list", items |-> <<>>]

\* json.load(f) if data_path.endswith('.json')
LoadDocument ==
    /\ load_pc = "open"
    /\ EndsWithJson(data_path)
    /\ parses' = parses + 1
    /\ \/ /\ ~JsonLoadRaises(file)
          /\ data' = JsonLoad(file)
          /\ load_pc' = "returned"
       \/ /\ JsonLoadRaises(file)
          /\ data' = data
          /\ load_pc' = "raised"
    /\ UNCHANGED <<data_path, file, line_no, runVars>>

\* [json.loads(line) for line in f]: one line
LoadLine ==
    /\ load_pc = "open"
    /\ ~EndsWithJson(data_path)
    /\ line_no <= Len(FileLines(file))
    /\ parses' = parses + 1
    /\ LET line == FileLines(file)[line_no]
       IN \/ /\ ~JsonLoadsRaises(line)
             /\ data' = [data EXCEPT !.items = Append(@, JsonLoads(line))]
             /\ line_no' = line_no + 1
             /\ load_pc' = load_pc
          \/ /\ JsonLoadsRaises(line)
             /\ UNCHANGED <<data, line_no>>
             /\ load_pc' = "raised"
    /\ UNCHANGED <<data_path, file, runVars>>

\* [json.loads(line) for line in f]: the file is exhausted
LoadLinesEnd ==
    /\ load_pc = "open"
    /\ ~EndsWithJson(data_path)
    /\ line_no > Len(FileLines(file))
    /\ load_pc' = "returned"
    /\ UNCHANGED <<data_path, file, line_no, parses, data, runVars>>

LoadNext == LoadDocument \/ LoadLine \/ LoadLinesEnd

LoadSpec == LoadInit /\ [][LoadNext]_vars

\* ================================================================ claims
InEvents(e) == \E i \in 1..Len(events) : events[i] = e
\* position of the first occurrence of a lifecycle call, 0 when it never ran
Pos(e) == IF InEvents(e) THEN SetMin({i \in 1..Len(events) : events[i] = e}) ELSE 0
Succeeded == pc = "done"
Aborted == pc = "aborted"
ValidationKeys == {"eval_loss", "eval_accuracy", "final_val_loss", "final_val_accuracy"}
Printed == IF stdout = <<>> THEN EmptyMetrics ELSE stdout[1]

\* C1: a run that succeeds has printed exactly one METRICS line and exits
\* with status 0; a run in which any step raised has printed no METRICS line
\* and exits with a non-zero status; a missing training data path ends in
\* Aborted with no METRICS line.
C1_MetricsLineAndStatus ==
    /\ Len(stdout) <= 1
    /\ (Succeeded => Len(stdout) = 1 /\ exit_status = 0 /\ failed_step = "none")
    /\ (exit_status = 0 => Succeeded /\ Len(stdout) = 1)
    /\ (failed_step # "none" => Aborted /\ stdout = <<>> /\ exit_status > 0)
    /\ (Aborted => failed_step # "none")
    /\ (train_data_path = "missing" /\ exit_status # -1 =>
            Aborted /\ stdout = <<>>)
C1_Witness ==
    Succeeded /\ Len(stdout) = 1 /\ exit_status = 0 /\ stdout[1] = metrics

\* C2: a run aborted by any step before the metrics write (data load, model
\* construction, fit, final save, final evaluation, history lookup) has not
\* created training_metrics.json, and a completely written metrics file
\* means no step has failed and the run is on its way to Done.
StepsBeforeWrite ==
    {"config", "construct_model", "load_train", "load_val", "training_args",
     "fit", "save_model", "save_tokenizer", "evaluate", "history_lookup"}
C2_NoMetricsFileOnAbort ==
    /\ (Aborted /\ failed_step \in StepsBeforeWrite => metrics_file = "absent")
    /\ (metrics_file = "complete" =>
            failed_step = "none" /\ pc \in {"print", "return", "done"})
C2_Witness ==
    Aborted /\ failed_step \in {"evaluate", "history_lookup"}
            /\ final_model_saved /\ metrics_file = "absent"

\* C3 (as claimed): in a successful run with validation data the final
\* evaluation pass completes before the final save starts.
C3_EvaluateBeforeSave ==
    Succeeded /\ Truthy(val_dataset) =>
        Pos("evaluate") > 0 /\ Pos("evaluate") < Pos("save_model")

\* C4 (as claimed): a successful run whose val_data_path names an existing
\* file (zero records included) yields a MetricsRecord with the key eval_loss.
C4_EvalLossPresent ==
    Succeeded /\ val_data_path \in {"empty", "records"} =>
        "eval_loss" \in DOMAIN metrics

\* C5 (as claimed): in a successful run without a usable val_data_path no
\* evaluation pass ran and the record returned, persisted and printed holds no
\* validation key; validation keys are present if and only if a validation
\* file was supplied.
C5_EvalFieldsIffValidation ==
    Succeeded =>
        /\ (val_data_path \in {"absent", "missing"} =>
                /\ eval_passes = 0
                /\ DOMAIN metrics \cap ValidationKeys = {}
                /\ DOMAIN metrics_file_content \cap ValidationKeys = {}
                /\ DOMAIN Printed \cap ValidationKeys = {})
        /\ (DOMAIN metrics \cap ValidationKeys # {} <=>
                val_data_path \in {"empty", "records"})

\* C6: an absent or non-existent validation path never invokes the loader on
\* it and never aborts the run; the training data is what every run past the
\* load needs.
C6_ValAbsenceNotFatal ==
    /\ (val_data_path \in {"absent", "missing"} =>
            /\ ~InEvents("load_val")
            /\ failed_step # "load_val"
            /\ val_dataset = "None")
    /\ (InEvents("load_train") => train_data_path = "records")
C6_Witness ==
    val_data_path = "missing" /\ Succeeded /\ InEvents("load_train")

\* C7 (as claimed): the MetricsRecord of a successful run holds the training
\* loss, the training duration, the throughput and the epochs completed.
C7_RequiredFields ==
    Succeeded =>
        /\ DOMAIN metrics \cap {"train_loss", "final_train_loss"} # {}
        /\ DOMAIN metrics \cap {"train_runtime"} # {}
        /\ DOMAIN metrics \cap {"train_samples_per_second"} # {}
        /\ DOMAIN metrics \cap {"epoch", "epochs_trained"} # {}

\* what the fit call has installed that acts on the validation loss
ValidationCallbacks ==
    callbacks_list
    \cup (IF training_args.load_best_model_at_end THEN {"load_best_model_at_end"} ELSE {})
    \cup (IF training_args.evaluation_strategy = "steps" THEN {"evaluation"} ELSE {})

\* C8 (as claimed): without a validation set no callback that depends on the
\* validation loss is installed for the fit call and training runs the full
\* configured epoch count; such callbacks are installed only with a
\* validation set.
C8_NoValidationNoCallbacks ==
    /\ (InEvents("fit") /\ val_dataset = "None" =>
            /\ ValidationCallbacks = {}
            /\ (InEvents("fit_returned") => epochs_trained = config.epochs))
    /\ (InEvents("fit") /\ ValidationCallbacks # {} => Truthy(val_dataset))

\* the longest run of consecutive evaluation rounds of h[1..n] that did not
\* improve on the best validation loss before them
RECURSIVE BestUpTo(_, _)
BestUpTo(h, n) ==
    IF n = 0 THEN 0
    ELSE LET b == BestUpTo(h, n - 1) IN
         IF b = 0 \/ h[n] < b THEN h[n] ELSE b
RECURSIVE StallAt(_, _)
StallAt(h, n) ==
    IF n = 0 THEN 0
    ELSE LET b == BestUpTo(h, n - 1) IN
         IF b = 0 \/ h[n] < b THEN 0 ELSE StallAt(h, n - 1) + 1
LongestStall(h) ==
    IF h = <<>> THEN 0 ELSE SetMax({StallAt(h, n) : n \in 1..Len(h)})

\* C9 (as claimed): when the validation loss failed to improve for more than
\* early_stopping_patience consecutive evaluation rounds, fit returned before
\* the configured epoch count was reached.
C9_EarlyStopping ==
    InEvents("fit_returned") /\ Truthy(val_dataset)
        /\ LongestStall(val_loss_history) > Patience
    => epochs_trained < config.epochs

\* C10 (as claimed): at every point of a run at most save_total_limit
\* checkpoint artifacts exist under the output directory.
C10_CheckpointRetention ==
    Cardinality(checkpoints) <= Get(config.save_total_limit, DefaultSaveTotalLimit)

\* a file whose records lack 'input' or 'output' is read by this run
BadRecordsGiven ==
    \/ ~train_schema_ok
    \/ ValPathUsable(val_data_path) /\ ~val_schema_ok

\* C11 (as claimed): when a training or validation record lacks 'input' or
\* 'output', the run aborts while loading: fit is never invoked and the run
\* never succeeds.
C11_SchemaErrorAtLoad ==
    BadRecordsGiven =>
        /\ ~InEvents("fit")
        /\ (exit_status # -1 => Aborted)

\* no lifecycle call is made twice
NoStepRevisited ==
    \A i, j \in 1..Len(events) : events[i] = events[j] => i = j
Before(e, f) == Pos(e) > 0 /\ Pos(e) < Pos(f)

\* C12 (as claimed): in every run the data is loaded before the model and
\* tokenizer are constructed.
C12_DataBeforeModel ==
    InEvents("construct_model") => Before("load_train", "construct_model")

\* C12 (amended): no lifecycle step is revisited, the training data is loaded
\* before the validation data, and data load and model construction both
\* precede fit; tensorflow_train.py loads the data before it constructs the
\* model, pytorch_train.py constructs tokenizer and model before it loads
\* the data.
C12_SetupOrder ==
    /\ NoStepRevisited
    /\ (InEvents("load_val") => Before("load_train", "load_val"))
    /\ (InEvents("fit") =>
            Before("load_train", "fit") /\ Before("construct_model", "fit"))
    /\ (IsTensorFlow /\ InEvents("construct_model") =>
            /\ Before("load_train", "construct_model")
            /\ (InEvents("load_val") => Before("load_val", "construct_model")))
    /\ (IsPyTorch /\ InEvents("load_train") =>
            Before("construct_model", "load_train"))
C12_Witness ==
    IsPyTorch /\ InEvents("fit") /\ InEvents("load_val")
              /\ Before("construct_model", "load_train")

Count(e) == Cardinality({i \in 1..Len(events) : events[i] = e})

\* C13 (as claimed): the final artifacts are written once, only after fit
\* returned, and a run that ends in Aborted has written none of them.
C13_FinalArtifactsOnlyOnDone ==
    /\ Count("save_model") <= 1 /\ Count("save_tokenizer") <= 1
    /\ (final_model_saved \/ tokenizer_saved => InEvents("fit_returned"))
    /\ (Aborted => ~final_model_saved /\ ~tokenizer_saved)

\* C14: fit is invoked at most once and no lifecycle step is made twice; a
\* failure of fit is the last thing the run does, and a failure of fit or of
\* any later step ends the process with a non-zero status and no METRICS line.
StepsFromFit ==
    {"fit", "save_model", "save_tokenizer", "evaluate", "history_lookup",
     "write_metrics"}
C14_FitOnceNoRetry ==
    /\ Count("fit") <= 1
    /\ NoStepRevisited
    /\ (failed_step = "fit" => events[Len(events)] = "fit")
    /\ (failed_step \in StepsFromFit =>
            Aborted /\ exit_status = 1 /\ ~InEvents("print") /\ Count("fit") = 1)
C14_Witness ==
    Aborted /\ failed_step = "fit" /\ epochs_trained > 0 /\ exit_status = 1

\* what training_metrics.json holds on disk
StaleMetrics == [k \in {"stale"} |-> 0]
DiskMetrics ==
    IF metrics_file # "absent" THEN metrics_file_content
    ELSE IF prior_metrics_file THEN StaleMetrics ELSE EmptyMetrics

\* C15: the metrics record is populated only after fit returned and does not
\* change once it is persisted: the file this run wrote, the record
\* train_model holds and the record printed are the same, whatever file was
\* in the output directory before.
C15_RecordLifecycle ==
    /\ (metrics # EmptyMetrics => InEvents("fit_returned"))
    /\ (metrics_file = "complete" => metrics_file_content = metrics)
    /\ (stdout # <<>> =>
            stdout[1] = metrics /\ metrics_file = "complete")
    /\ (Succeeded =>
            DiskMetrics = metrics /\ Printed = metrics /\ metrics # EmptyMetrics)
C15_Witness ==
    Succeeded /\ prior_metrics_file /\ "eval_loss" \in DOMAIN metrics
              /\ DiskMetrics = metrics /\ Printed = metrics

\* the path ends in '.json'
JsonSuffixed == load_pc # "idle" /\ data_path[Len(data_path)] = ".json"
\* a valid data file: laid out as its path announces, every record holding
\* non-empty 'input' and 'output' texts
ValidRecord(r) ==
    DOMAIN r = Fields /\ r["input"] # "" /\ r["output"] # ""
ValidFile ==
    /\ load_pc # "idle"
    /\ IF JsonSuffixed
       THEN file.layout \in {"array", "array_multiline"}
       ELSE file.layout = "lines"
    /\ \A i \in 1..Len(file.records) : ValidRecord(file.records[i])

\* C16: loading a valid data file never raises; a path ending in '.json' is
\* parsed with one whole-document parse and any other path with one parse per
\* line; what is returned is a list as long as the file has records, holding
\* the records of the file in file order, each with non-empty input and output.
C16_LoadValidFile ==
    ValidFile =>
        /\ load_pc # "raised"
        /\ (load_pc = "returned" =>
                /\ data.type = "list"
                /\ LoadedLen = Len(file.records)
                /\ \A i \in 1..Len(file.records) :
                        /\ data.items[i] = Dict(file.records[i])
                        /\ ValidRecord(data.items[i].rec)
                /\ parses = IF JsonSuffixed THEN 1
                            ELSE Len(file.records))
C16_Witness ==
    /\ ValidFile /\ load_pc = "returned"
    /\ ~JsonSuffixed /\ data_path[2] = ".json"
    /\ Len(file.records) >= 2 /\ file.records[1] # file.records[2]
    /\ LoadedLen = Len(file.records)

\* C17 (as claimed): in a run with validation data, once the validation loss
\* has gone the number of consecutive evaluation rounds without improvement
\* that sets off the decay, the learning rate has been halved.
C17_LearningRateDecay ==
    Truthy(val_dataset) /\ LongestStall(val_loss_history) >= PlateauPatience =>
        lr_halvings >= 1

\* C19: no checkpoint written or deleted during the run is, or contains, a
\* final artifact path, and every checkpoint kept was written by the run; at
\* Done the final artifacts are those of the single final save.
C19_CheckpointsApartFromFinal ==
    /\ checkpoints \subseteq CheckpointsWritten
    /\ \A n \in CheckpointsWritten : \A p \in FinalPaths :
            ~Within(p, CheckpointPath(n))
    /\ (Succeeded =>
            /\ FinalArtifacts = FinalPaths
            /\ Count("save_model") = 1
            /\ Pos("fit_returned") < Pos("save_model"))
C19_Witness ==
    /\ Succeeded /\ IsPyTorch
    /\ checkpoints # {} /\ CheckpointsWritten \ checkpoints # {}
    /\ FinalArtifacts = {PTModelPath, PTTokenizerPath}

\* C20: in every state of either backend, a metrics file written (even in
\* part) by this run means the final save has completed, and a printed
\* METRICS line means the metrics file has been written completely: final
\* save, metrics file, METRICS line happen in this order.
FinalSaveCompleted ==
    /\ final_model_saved /\ InEvents("save_model")
    /\ (IsPyTorch => tokenizer_saved /\ Before("save_model", "save_tokenizer"))
C20_SaveThenFileThenLine ==
    /\ (metrics_file # "absent" => FinalSaveCompleted)
    /\ (InEvents("write_metrics") =>
            metrics_file = "complete" /\ FinalSaveCompleted
            /\ Before("save_model", "write_metrics"))
    /\ (stdout # <<>> \/ InEvents("print") =>
            metrics_file = "complete" /\ Before("write_metrics", "print"))
C20_Witness ==
    /\ pc = "return" /\ IsTensorFlow /\ stdout # <<>>
    /\ metrics_file = "complete" /\ final_model_saved
    /\ Before("save_model", "write_metrics") /\ Before("write_metrics", "print")

====
